---- MODULE Spec2Model ----
(***************************************************************************)
(* Model of the AT-SPI accessibility handler of the computer server:       *)
(* computer_server/handlers/linuxtry.py, classes LinuxUIElement and        *)
(* LinuxAccessibilityHandler.                                              *)
(*                                                                         *)
(* The handler keeps no state between calls.  The state of the model is    *)
(* the environment a call runs against (the accessibility registry and     *)
(* the wmctrl command) and the observable record of the last call (which   *)
(* operation, its argument, its result, the phases it went through and     *)
(* how many times it ran wmctrl).                                          *)
(*                                                                         *)
(* Python strings are sequences of one-character strings, so that lower(), *)
(* `in`, split(), splitlines() and strip() are computed, not assumed.      *)
(***************************************************************************)
EXTENDS Integers, Sequences, FiniteSets, TLC

----------------------------------------------------------------------------
(* Python string primitives                                                *)

UpperChars == <<"A","B","C","D","E","F","G","H","I","J","K","L","M",
                "N","O","P","Q","R","S","T","U","V","W","X","Y","Z">>

LowerChars == <<"a","b","c","d","e","f","g","h","i","j","k","l","m",
                "n","o","p","q","r","s","t","u","v","w","x","y","z">>

\* str.lower() on one character
LowerChar(c) ==
    IF \E i \in 1..Len(UpperChars) : UpperChars[i] = c
    THEN LowerChars[CHOOSE i \in 1..Len(UpperChars) : UpperChars[i] = c]
    ELSE c

\* str.lower()
Lower(s) == [i \in 1..Len(s) |-> LowerChar(s[i])]

\* Python `sub in s` on strings
Contains(sub, s) ==
    \E k \in 0..(Len(s) - Len(sub)) :
        \A i \in 1..Len(sub) : s[k + i] = sub[i]

\* characters str.split(None) and str.strip() treat as whitespace
Whitespace == {" ", "\t", "\n", "\r", "\f"}

\* characters str.splitlines() breaks lines at
LineBreaks == {"\n", "\r", "\f"}

RECURSIVE SkipSpace(_, _)
\* first index >= i of s that is not whitespace, Len(s)+1 if there is none
SkipSpace(s, i) ==
    IF i <= Len(s) /\ s[i] \in Whitespace THEN SkipSpace(s, i + 1) ELSE i

RECURSIVE SkipWord(_, _)
\* first index >= i of s that is whitespace, Len(s)+1 if there is none
SkipWord(s, i) ==
    IF i <= Len(s) /\ s[i] \notin Whitespace THEN SkipWord(s, i + 1) ELSE i

RECURSIVE SplitFrom(_, _, _, _)
\* the loop of str.split(None, maxsplit): i is the scan position, acc the
\* fields found so far
SplitFrom(s, i, maxcount, acc) ==
    LET b == SkipSpace(s, i) IN
    IF maxcount = 0
    THEN IF b <= Len(s) THEN Append(acc, SubSeq(s, b, Len(s))) ELSE acc
    ELSE IF b > Len(s)
         THEN acc
         ELSE LET e == SkipWord(s, b) IN
              SplitFrom(s, e, maxcount - 1, Append(acc, SubSeq(s, b, e - 1)))

\* str.split(None, maxsplit)
Split(s, maxsplit) == SplitFrom(s, 1, maxsplit, <<>>)

RECURSIVE RStripLen(_, _)
\* length of s[1..n] once trailing whitespace is removed
RStripLen(s, n) ==
    IF n >= 1 /\ s[n] \in Whitespace THEN RStripLen(s, n - 1) ELSE n

\* str.strip()
Strip(s) ==
    LET b == SkipSpace(s, 1) IN
    IF b > Len(s) THEN <<>> ELSE SubSeq(s, b, RStripLen(s, Len(s)))

RECURSIVE SplitLinesFrom(_, _, _, _)
\* the loop of str.splitlines(): cur is the line being read
SplitLinesFrom(s, i, cur, acc) ==
    IF i > Len(s)
    THEN IF cur = <<>> THEN acc ELSE Append(acc, cur)
    ELSE IF s[i] \in LineBreaks
         THEN LET step == IF s[i] = "\r" /\ i < Len(s) /\ s[i + 1] = "\n"
                          THEN 2 ELSE 1 IN
              SplitLinesFrom(s, i + step, <<>>, Append(acc, cur))
         ELSE SplitLinesFrom(s, i + 1, Append(cur, s[i]), acc)

\* str.splitlines()
SplitLines(s) == SplitLinesFrom(s, 1, <<>>, <<>>)

----------------------------------------------------------------------------
(* The accessibility backend as the code sees it                           *)
(*                                                                         *)
(* A read of a backend attribute either returns a value or raises.  An     *)
(* accessible object is a record                                           *)
(*   role     getRoleName(): a read of a string                            *)
(*   name     .name: a read of a string (None reads as the empty string,   *)
(*            which is what `accessible.name or ''` makes of it)           *)
(*   text     queryText(): q is "raise", "none" (a falsy interface) or     *)
(*            "ok"; content is the read getText(0, -1)                     *)
(*   val      queryValue(): q as above; cur is the read of currentValue,   *)
(*            the number n standing for the float n.0                      *)
(*   comp     queryComponent(): q as above; pos is getPosition(), size is  *)
(*            getSize(), each [ok, a, b]                                   *)
(*   kids     the children the object enumerates, in backend order         *)
(*   enumFailAt  0, or the index of the child at which iterating the       *)
(*            object raises (children before it were yielded)              *)
(*   broken   LinuxUIElement(object) raises instead of returning           *)

Ok(v) == [ok |-> TRUE, v |-> v]

Raises == [ok |-> FALSE, v |-> <<>>]

RaisesNum == [ok |-> FALSE, v |-> 0]

Pair(a, b) == [ok |-> TRUE, a |-> a, b |-> b]

RaisesPair == [ok |-> FALSE, a |-> 0, b |-> 0]

Digit(d) == <<"0","1","2","3","4","5","6","7","8","9">>[d + 1]

RECURSIVE StrNat(_)
\* str() of a non-negative integer
StrNat(n) == IF n < 10 THEN <<Digit(n)>>
             ELSE Append(StrNat(n \div 10), Digit(n % 10))

\* str() of the float n.0, the type of currentValue
StrFloat(n) == StrNat(n) \o <<".", "0">>

----------------------------------------------------------------------------
(* LinuxUIElement                                                          *)

\* ElemRole with a placeholder instead of '' when the read raises
ElemRole_placeholder(acc) ==
    IF acc.role.ok THEN acc.role.v ELSE <<"u","n","k","n","o","w","n">>

\* self.role, lines 18-21
ElemRole(acc) == IF acc.role.ok THEN acc.role.v ELSE <<>>

\* self.title, lines 23-26
ElemTitle(acc) == IF acc.name.ok THEN acc.name.v ELSE <<>>

\* self.value, lines 28-41
ElemValue(acc) ==
    IF acc.text.q = "none"
    THEN <<>>
    ELSE IF acc.text.q = "ok" /\ acc.text.content.ok
         THEN acc.text.content.v
         ELSE \* queryText() or getText() raised: the value interface
              IF acc.val.q = "none"
              THEN <<>>
              ELSE IF acc.val.q = "ok" /\ acc.val.cur.ok
                   THEN StrFloat(acc.val.cur.v)
                   ELSE ElemTitle(acc)

\* self.x, self.y, self.width, self.height, lines 44-53
ElemBox(acc) ==
    IF acc.comp.q = "ok" /\ acc.comp.pos.ok
    THEN IF acc.comp.size.ok
         THEN [x |-> acc.comp.pos.a, y |-> acc.comp.pos.b,
               width |-> acc.comp.size.a, height |-> acc.comp.size.b]
         ELSE [x |-> acc.comp.pos.a, y |-> acc.comp.pos.b,
               width |-> 0, height |-> 0]
    ELSE [x |-> 0, y |-> 0, width |-> 0, height |-> 0]

RECURSIVE LinuxUIElement(_)
RECURSIVE ChildrenFrom_stopAtBroken(_, _, _)
RECURSIVE ChildrenFrom(_, _, _)

\* ChildrenFrom with a child that fails to construct ending the loop
ChildrenFrom_stopAtBroken(acc, i, built) ==
    IF i > Len(acc.kids) \/ acc.enumFailAt = i
    THEN built
    ELSE IF acc.kids[i].broken
         THEN built
         ELSE ChildrenFrom_stopAtBroken(acc, i + 1,
                  Append(built, LinuxUIElement(acc.kids[i])))

\* self.children, lines 56-67: the loop over the object's children from
\* the i-th on, built being self.children so far
ChildrenFrom(acc, i, built) ==
    IF i > Len(acc.kids)
    THEN built
    ELSE IF acc.enumFailAt = i
         THEN built                      \* iterating raised: pass
         ELSE IF acc.kids[i].broken
              THEN ChildrenFrom(acc, i + 1, built)       \* continue
              ELSE ChildrenFrom(acc, i + 1,
                       Append(built, LinuxUIElement(acc.kids[i])))

\* LinuxUIElement.__init__ for an object whose construction returns
LinuxUIElement(acc) ==
    [role     |-> ElemRole(acc),
     title    |-> ElemTitle(acc),
     value    |-> ElemValue(acc),
     x        |-> ElemBox(acc).x,
     y        |-> ElemBox(acc).y,
     width    |-> ElemBox(acc).width,
     height   |-> ElemBox(acc).height,
     children |-> ChildrenFrom(acc, 1, <<>>)]

RECURSIVE to_dict(_)
\* LinuxUIElement.to_dict
to_dict(e) ==
    [role     |-> e.role,
     title    |-> e.title,
     value    |-> e.value,
     x        |-> e.x,
     y        |-> e.y,
     width    |-> e.width,
     height   |-> e.height,
     children |-> [i \in 1..Len(e.children) |-> to_dict(e.children[i])]]

\* Python truthiness of a string
Truthy(s) == s # <<>>

\* contains_value that looks at the element itself only
contains_value_shallow(e, search) ==
    IF search.isNone
    THEN FALSE
    ELSE \/ Truthy(e.value) /\ Contains(Lower(search.s), Lower(e.value))
         \/ Truthy(e.title) /\ Contains(Lower(search.s), Lower(e.title))

RECURSIVE contains_value(_, _)
\* LinuxUIElement.contains_value; search is [isNone, s]
contains_value(e, search) ==
    IF search.isNone
    THEN FALSE
    ELSE \/ Truthy(e.value) /\ Contains(Lower(search.s), Lower(e.value))
         \/ Truthy(e.title) /\ Contains(Lower(search.s), Lower(e.title))
         \/ \E i \in 1..Len(e.children) : contains_value(e.children[i], search)

----------------------------------------------------------------------------
(* LinuxAccessibilityHandler                                               *)
(*                                                                         *)
(* The desktop is [root, count, apps]: root is "ok" or "raise" for         *)
(* pyatspi.Registry.getDesktop(0), count the same for desktop.childCount.  *)
(* An application is [fetch, count, wins]: fetch for                       *)
(* desktop.getChildAtIndex(i), count for app.childCount.  An entry of      *)
(* wins is [fetch, filterRole, node]: fetch for app.getChildAtIndex(j),    *)
(* filterRole the read window.getRoleName() of the role filter, node the   *)
(* accessible object handed to LinuxUIElement.                             *)
(*                                                                         *)
(* wmctrl is [status, output]: status "missing" (the command is not        *)
(* installed), "fail" (non-zero exit) or "ok", output its standard output. *)
(*                                                                         *)
(* A result is the returned dict: keys is its key set, success its         *)
(* "success" entry, windows its "windows" entry or, under the key          *)
(* "window", the one window; error its "error" entry.  raised is TRUE      *)
(* when the call left by an exception instead of returning.                *)

\* str(e) of the exceptions the backend raises
ErrGetDesktop == <<"getDesktop failed">>

ErrChildCount == <<"childCount failed">>

ErrGetChild == <<"getChildAtIndex failed">>

ErrConstruct == <<"LinuxUIElement failed">>

\* str(e) of AttributeError for None.lower()
ErrNoneLower == <<"'NoneType' object has no attribute 'lower'">>

\* str() of an argument, as an f-string formats it
PyStr(arg) == IF arg.isNone THEN <<"N", "o", "n", "e">> ELSE arg.s

Success(key, ws) ==
    [raised |-> FALSE, success |-> TRUE, keys |-> {"success", key},
     windows |-> ws, error |-> <<>>]

Failure(msg) ==
    [raised |-> FALSE, success |-> FALSE, keys |-> {"success", "error"},
     windows |-> <<>>, error |-> msg]

Escaped(msg) ==
    [raised |-> TRUE, success |-> FALSE, keys |-> {},
     windows |-> <<>>, error |-> msg]

\* outcome of a try body: a return value or an exception
Returned(r) == [exc |-> FALSE, msg |-> <<>>, ret |-> r]

Thrown(msg) == [exc |-> TRUE, msg |-> msg, ret |-> Failure(<<>>)]

\* Handled without the except clause: the exception leaves the call
Handled_uncaught(out) == IF out.exc THEN Escaped(out.msg) ELSE out.ret

\* `except Exception as e: return {"success": False, "error": str(e)}`,
\* lines 141-142, 156-157, 172-173, 194-195
Handled(out) == IF out.exc THEN Failure(out.msg) ELSE out.ret

\* the roles of the filter, lines 120 and 189
WindowRoles == {<<"f","r","a","m","e">>, <<"w","i","n","d","o","w">>,
                <<"d","i","a","l","o","g">>}

\* role of lines 116-119 and 185-188
FilterRole(entry) ==
    IF entry.filterRole.ok THEN Lower(entry.filterRole.v) ELSE <<>>

Captured(ws) == [exc |-> FALSE, msg |-> <<>>, windows |-> ws]

CaptureThrown(msg) == [exc |-> TRUE, msg |-> msg, windows |-> <<>>]

RECURSIVE ScanWindows(_, _, _)
\* the inner loop of get_windows, lines 114-125, from the j-th child on
ScanWindows(app, j, windows) ==
    IF j > Len(app.wins)
    THEN Captured(windows)
    ELSE LET entry == app.wins[j] IN
         IF entry.fetch = "raise"
         THEN CaptureThrown(ErrGetChild)
         ELSE IF FilterRole(entry) \in WindowRoles /\ ~entry.node.broken
              THEN ScanWindows(app, j + 1,
                       Append(windows, to_dict(LinuxUIElement(entry.node))))
              ELSE ScanWindows(app, j + 1, windows)

RECURSIVE ScanApps(_, _, _)
\* the outer loop of get_windows, lines 112-125, from the i-th application
ScanApps(desk, i, windows) ==
    IF i > Len(desk.apps)
    THEN Captured(windows)
    ELSE LET app == desk.apps[i] IN
         IF app.fetch = "raise"
         THEN CaptureThrown(ErrGetChild)
         ELSE IF app.count = "raise"
              THEN CaptureThrown(ErrChildCount)
              ELSE LET inner == ScanWindows(app, 1, windows) IN
                   IF inner.exc THEN inner
                   ELSE ScanApps(desk, i + 1, inner.windows)

\* the AT-SPI capture of get_windows, lines 110-125
PrimaryCapture(desk) ==
    IF desk.root = "raise" THEN CaptureThrown(ErrGetDesktop)
    ELSE IF desk.count = "raise" THEN CaptureThrown(ErrChildCount)
    ELSE ScanApps(desk, 1, <<>>)

\* the stub of lines 134-136
Stub(title) ==
    [role |-> <<"w","i","n","d","o","w">>, title |-> title, value |-> <<>>,
     x |-> 0, y |-> 0, width |-> 0, height |-> 0, children |-> <<>>]

\* StubTitle without strip()
StubTitle_unstripped(parts) == parts[4]

\* `_, _, _, title = parts` and title.strip(), lines 133-134
StubTitle(parts) == Strip(parts[4])

RECURSIVE StubsFrom(_, _, _)
\* the loop over the lines of the listing, lines 130-136
StubsFrom(lines, k, windows) ==
    IF k > Len(lines)
    THEN windows
    ELSE LET parts == Split(lines[k], 3) IN
         IF Len(parts) >= 4
         THEN StubsFrom(lines, k + 1,
                        Append(windows, Stub(StubTitle(parts))))
         ELSE StubsFrom(lines, k + 1, windows)

\* the wmctrl listing, lines 129-136; check_output raises when the command
\* is missing or exits with failure
WmctrlListing(wm) ==
    IF wm.status = "ok"
    THEN Captured(StubsFrom(SplitLines(wm.output), 1, <<>>))
    ELSE CaptureThrown(<<"wmctrl failed">>)

\* FallbackGuard without the inner except: the exception goes on to the
\* outer handler
FallbackGuard_propagate(listing) == listing

\* `except Exception: pass`, lines 137-139
FallbackGuard(listing) == Captured(listing.windows)

\* FallbackTriggered that also fires when the capture raised
FallbackTriggered_onError(cap) == cap.windows = <<>>

\* `if not windows`, line 126, reached only when the capture did not raise
FallbackTriggered(cap) == ~cap.exc /\ cap.windows = <<>>

\* get_windows, lines 104-142, with what it did: capture is the outcome of
\* the AT-SPI capture, wmctrlCalls the number of times wmctrl was run
GetWindowsRun(desk, wm) ==
    LET cap == PrimaryCapture(desk)
        fb  == FallbackTriggered(cap)
        lst == IF fb THEN FallbackGuard(WmctrlListing(wm)) ELSE cap
        out == IF cap.exc THEN Thrown(cap.msg)
               ELSE IF lst.exc THEN Thrown(lst.msg)
               ELSE Returned(Success("windows", lst.windows))
    IN  [result      |-> Handled(out),
         capture     |-> IF cap.exc THEN "raised"
                         ELSE IF cap.windows = <<>> THEN "empty"
                         ELSE "nonempty",
         wmctrlCalls |-> IF fb THEN 1 ELSE 0]

get_windows(desk, wm) == GetWindowsRun(desk, wm).result

\* the test of line 153 without lower(): a case-sensitive comparison
TitleMatches_caseSensitive(title, win) == Contains(title.s, win.title)

\* `title.lower() in win.get("title", "").lower()`, line 153
TitleMatches(title, win) == Contains(Lower(title.s), Lower(win.title))

RECURSIVE TitleLoop(_, _, _)
\* the loop of find_window_by_title, lines 152-155, from the k-th window
TitleLoop(windows, k, title) ==
    IF k > Len(windows)
    THEN Returned(Failure(<<"No window with title containing '">>
                          \o PyStr(title) \o <<"' found">>))
    ELSE IF title.isNone
         THEN Thrown(ErrNoneLower)
         ELSE IF TitleMatches(title, windows[k])
              THEN Returned(Success("window", <<windows[k]>>))
              ELSE TitleLoop(windows, k + 1, title)

\* find_window_by_title, lines 148-157, given the run of its get_windows
TitleSearch(run, title) ==
    [result      |-> IF ~run.result.success
                     THEN Handled(Returned(run.result))
                     ELSE Handled(TitleLoop(run.result.windows, 1, title)),
     capture     |-> run.capture,
     wmctrlCalls |-> run.wmctrlCalls]

\* find_window_by_title, lines 144-157
find_window_by_title(desk, wm, title) ==
    TitleSearch(GetWindowsRun(desk, wm), title).result

\* the test of line 167 as a substring test instead of an equality
RoleMatches_substring(role, win) == Contains(Lower(role.s), Lower(win.role))

\* `w.get("role", "").lower() == role.lower()`, line 167
RoleMatches(role, win) == Lower(win.role) = Lower(role.s)

\* the list comprehension and the branches of lines 167-171
RoleSelect(windows, role) ==
    IF windows # <<>> /\ role.isNone
    THEN Thrown(ErrNoneLower)
    ELSE LET matches == SelectSeq(windows,
                            LAMBDA w : ~role.isNone /\ RoleMatches(role, w))
         IN  IF matches # <<>>
             THEN Returned(Success("windows", matches))
             ELSE Returned(Failure(<<"No windows with role '">>
                                   \o PyStr(role) \o <<"' found">>))

\* find_window_by_role, lines 163-173, given the run of its get_windows
RoleSearch(run, role) ==
    [result      |-> IF ~run.result.success
                     THEN Handled(Returned(run.result))
                     ELSE Handled(RoleSelect(run.result.windows, role)),
     capture     |-> run.capture,
     wmctrlCalls |-> run.wmctrlCalls]

\* find_window_by_role, lines 159-173
find_window_by_role(desk, wm, role) ==
    RoleSearch(GetWindowsRun(desk, wm), role).result

\* a scan that is still running, or one that has ended with an outcome
Running == [done |-> FALSE, out |-> Returned(Failure(<<>>))]

Ended(out) == [done |-> TRUE, out |-> out]

RECURSIVE ValueScanWindows(_, _, _)
\* the inner loop of find_window_by_value, lines 183-192
ValueScanWindows(app, j, value) ==
    IF j > Len(app.wins)
    THEN Running
    ELSE LET entry == app.wins[j] IN
         IF entry.fetch = "raise"
         THEN Ended(Thrown(ErrGetChild))
         ELSE IF FilterRole(entry) \in WindowRoles
              THEN IF entry.node.broken
                   THEN Ended(Thrown(ErrConstruct))
                   ELSE LET ui_elem == LinuxUIElement(entry.node) IN
                        IF contains_value(ui_elem, value)
                        THEN Ended(Returned(
                                 Success("window", <<to_dict(ui_elem)>>)))
                        ELSE ValueScanWindows(app, j + 1, value)
              ELSE ValueScanWindows(app, j + 1, value)

RECURSIVE ValueScanApps(_, _, _)
\* the outer loop of find_window_by_value, lines 181-193
ValueScanApps(desk, i, value) ==
    IF i > Len(desk.apps)
    THEN Returned(Failure(<<"No window with value '">>
                          \o PyStr(value) \o <<"' found">>))
    ELSE LET app == desk.apps[i] IN
         IF app.fetch = "raise"
         THEN Thrown(ErrGetChild)
         ELSE IF app.count = "raise"
              THEN Thrown(ErrChildCount)
              ELSE LET inner == ValueScanWindows(app, 1, value) IN
                   IF inner.done THEN inner.out
                   ELSE ValueScanApps(desk, i + 1, value)

\* find_window_by_value, lines 175-195
find_window_by_value(desk, value) ==
    Handled(IF desk.root = "raise" THEN Thrown(ErrGetDesktop)
            ELSE IF desk.count = "raise" THEN Thrown(ErrChildCount)
            ELSE ValueScanApps(desk, 1, value))

----------------------------------------------------------------------------
(* The environments and arguments the calls are run against                *)

MaxApps == 2

MaxWins == 1

MaxKids == 2

MaxLines == 2

MaxFields == 5

MaxQueryLen == 2

SeqsUpTo(S, n) == UNION {[1..k -> S] : k \in 0..n}

TextOk(s) == [q |-> "ok", content |-> Ok(s)]

TextNone == [q |-> "none", content |-> Raises]

TextRaise == [q |-> "raise", content |-> Raises]

TextGetRaise == [q |-> "ok", content |-> Raises]

ValOk(n) == [q |-> "ok", cur |-> [ok |-> TRUE, v |-> n]]

ValNone == [q |-> "none", cur |-> RaisesNum]

ValRaise == [q |-> "raise", cur |-> RaisesNum]

CompOk(x, y, w, h) == [q |-> "ok", pos |-> Pair(x, y), size |-> Pair(w, h)]

CompRaise == [q |-> "raise", pos |-> RaisesPair, size |-> RaisesPair]

CompSizeRaise(x, y) == [q |-> "ok", pos |-> Pair(x, y), size |-> RaisesPair]

Accessible(role, name, text, val, comp, kids, enumFailAt) ==
    [role |-> role, name |-> name, text |-> text, val |-> val, comp |-> comp,
     kids |-> kids, enumFailAt |-> enumFailAt, broken |-> FALSE]

rFrame == <<"f","r","a","m","e">>

rFrameCap == <<"F","r","a","m","e">>

rDialog == <<"d","i","a","l","o","g">>

rWindow == <<"w","i","n","d","o","w">>

rButton == <<"b","u","t","t","o","n">>

rPanel == <<"p","a","n","e","l">>

\* a label whose text is "t"
LeafValue ==
    Accessible(Ok(<<"l","a","b","e","l">>), Ok(<<>>), TextOk(<<"t">>),
               ValRaise, CompOk(1, 2, 3, 4), <<>>, 0)

\* a button named "T" with neither text nor value interface
LeafTitle ==
    Accessible(Ok(rButton), Ok(<<"T">>), TextRaise, ValRaise, CompRaise,
               <<>>, 0)

\* a slider with value 1.0 whose size cannot be read
LeafNumber ==
    Accessible(Ok(<<"s","l","i","d","e","r">>), Raises, TextGetRaise,
               ValOk(1), CompSizeRaise(5, 6), <<>>, 0)

\* an object whose construction raises
LeafBroken == [LeafTitle EXCEPT !.broken = TRUE]

Panel(kids, enumFailAt) ==
    Accessible(Ok(rPanel), Ok(<<>>), TextNone, ValNone, CompOk(0, 0, 9, 9),
               kids, enumFailAt)

\* a panel whose first child cannot be constructed
PanelBrokenFirst == Panel(<<LeafBroken, LeafTitle>>, 0)

\* a panel whose enumeration fails at its second child
PanelEnumFails == Panel(<<LeafNumber, LeafValue>>, 2)

\* the children a top-level window is given
KidChoices == {LeafValue, LeafBroken, PanelBrokenFirst}

\* a top-level object: title and value come from name alone
TopLevel(role, name, kids, enumFailAt) ==
    Accessible(Ok(role), Ok(name), TextRaise, ValRaise, CompOk(0, 0, 8, 6),
               kids, enumFailAt)

Entry(node) == [fetch |-> "ok", filterRole |-> node.role, node |-> node]

EntryRaises == [fetch |-> "raise", filterRole |-> Raises, node |-> LeafTitle]

App(wins) == [fetch |-> "ok", count |-> "ok", wins |-> wins]

AppFetchRaises == [fetch |-> "raise", count |-> "ok", wins |-> <<>>]

AppCountRaises == [fetch |-> "ok", count |-> "raise", wins |-> <<>>]

Desktop(apps) == [root |-> "ok", count |-> "ok", apps |-> apps]

DesktopRootRaises == [root |-> "raise", count |-> "ok", apps |-> <<>>]

DesktopCountRaises == [root |-> "ok", count |-> "raise", apps |-> <<>>]

FrameTt == TopLevel(rFrameCap, <<"T","t">>, <<>>, 0)

DialogT == TopLevel(rDialog, <<"t">>, <<LeafValue>>, 0)

ButtonT == TopLevel(rButton, <<"t">>, <<>>, 0)

\* desktops that vary where the enumeration of applications and of their
\* children raises
EnumEntries == {EntryRaises, Entry(FrameTt), Entry(DialogT)}

EnumApps ==
    {AppFetchRaises, AppCountRaises}
        \cup {App(ws) : ws \in SeqsUpTo(EnumEntries, MaxWins)}

EnumDesktops ==
    {DesktopRootRaises, DesktopCountRaises}
        \cup {Desktop(as) : as \in SeqsUpTo(EnumApps, MaxApps)}

\* desktops that vary the tree under one top-level window
TreeWindows ==
    {TopLevel(rFrame, <<>>, ks, f) :
        ks \in SeqsUpTo(KidChoices, MaxKids), f \in 0..MaxKids}

TreeDesktops ==
    {Desktop(<<App(<<Entry(w)>>)>>) :
        w \in {t \in TreeWindows : t.enumFailAt <= Len(t.kids)}}

\* desktops with two top-level objects of one application
PairWindows ==
    {FrameTt, DialogT, ButtonT,
     TopLevel(rWindow, <<>>, <<Panel(<<PanelEnumFails>>, 0)>>, 0),
     TopLevel(rFrame, <<>>, <<PanelBrokenFirst>>, 0),
     [FrameTt EXCEPT !.broken = TRUE]}

\* entries whose role changes or fails between the filter and construction
RaceEntries ==
    {[Entry(FrameTt) EXCEPT !.filterRole = Raises],
     [Entry(ButtonT) EXCEPT !.filterRole = Ok(rFrame)],
     [Entry(FrameTt) EXCEPT !.node.role = Raises]}

PairDesktops ==
    {Desktop(<<App(<<Entry(a), Entry(b)>>)>>) :
        a \in PairWindows, b \in PairWindows}
    \cup {Desktop(<<App(<<e>>)>>) : e \in RaceEntries}

\* wmctrl -l prints "<id> <desktop> <host> <title>"; a line with n fields
FieldWords == <<<<"1">>, <<"0">>, <<"h">>, <<"T">>, <<"t">>>>

FieldWord(i) == IF i <= Len(FieldWords) THEN FieldWords[i] ELSE <<"t">>

RECURSIVE JoinFields(_, _)
JoinFields(n, sep) ==
    IF n = 0 THEN <<>>
    ELSE IF n = 1 THEN FieldWord(1)
    ELSE JoinFields(n - 1, sep) \o sep \o FieldWord(n)

ListingLines ==
    {<<>>}
    \cup {JoinFields(n, <<" ">>) : n \in 3..MaxFields}
    \cup {<<" ">> \o JoinFields(n, <<" ", "\t">>) \o <<" ">> :
             n \in 3..MaxFields}

RECURSIVE JoinLines(_)
JoinLines(ls) ==
    IF ls = <<>> THEN <<>> ELSE Head(ls) \o <<"\n">> \o JoinLines(Tail(ls))

WmctrlOk(output) == [status |-> "ok", output |-> output]

WmctrlChoices ==
    {[status |-> "missing", output |-> <<>>],
     [status |-> "fail", output |-> <<>>]}
    \cup {WmctrlOk(JoinLines(ls)) : ls \in SeqsUpTo(ListingLines, MaxLines)}

\* the listing of one window titled "Tt"
WmctrlOne ==
    WmctrlOk(<<"1", " ", "0", " ", "h", " ", "T", "t", "\n">>)

\* desktops on which the AT-SPI capture finds no window
EmptyDesktops == {Desktop(<<>>), Desktop(<<App(<<Entry(ButtonT)>>)>>)}

ValCurRaise == [q |-> "ok", cur |-> RaisesNum]

CompNone == [q |-> "none", pos |-> RaisesPair, size |-> RaisesPair]

CompPosRaise == [q |-> "ok", pos |-> RaisesPair, size |-> Pair(3, 4)]

\* what queryText() and getText() can do
TextChoices ==
    {TextOk(<<"t">>), TextOk(<<>>), TextNone, TextRaise, TextGetRaise}

\* what queryValue() and currentValue can do
ValChoices == {ValOk(1), ValNone, ValRaise, ValCurRaise}

\* what queryComponent(), getPosition() and getSize() can do
CompChoices ==
    {CompOk(1, 2, 3, 4), CompNone, CompRaise, CompPosRaise,
     CompSizeRaise(5, 6)}

rLabelCap == <<"L","a","b","e","l">>

\* objects that vary which attribute reads fail and what the interfaces
\* of the value yield
AttrLeaves ==
    {Accessible(r, n, t, v, CompOk(1, 2, 3, 4), <<>>, 0) :
        r \in {Ok(rLabelCap), Raises}, n \in {Ok(<<"T">>), Raises},
        t \in TextChoices, v \in ValChoices}
    \cup
    {Accessible(r, n, t, ValRaise, c, <<>>, 0) :
        r \in {Ok(rLabelCap), Raises}, n \in {Ok(<<"T">>), Raises},
        t \in {TextOk(<<"t">>), TextRaise}, c \in CompChoices}

\* desktops with one window that has one such object as its child
AttrDesktops ==
    {Desktop(<<App(<<Entry(TopLevel(rFrame, <<>>, <<leaf>>, 0))>>)>>) :
        leaf \in AttrLeaves}

Str(s) == [isNone |-> FALSE, s |-> s]

None == [isNone |-> TRUE, s |-> <<>>]

QueryChars == {"T", "t"}

\* the arguments of find_window_by_title and find_window_by_value
TextArgs == {Str(s) : s \in SeqsUpTo(QueryChars, MaxQueryLen)} \cup {None}

\* the arguments of find_window_by_role
RoleArgs ==
    {Str(rFrame), Str(<<"D","i","a","l","o","g">>), Str(rWindow),
     Str(rButton), Str(<<>>), None}

----------------------------------------------------------------------------
(* State                                                                   *)

VARIABLES
    desktop,      \* the accessibility registry
    wmctrl,       \* the wmctrl command
    op,           \* the last call made, "none" before the first
    arg,          \* its argument
    result,       \* what it returned
    capture,      \* what its AT-SPI capture in get_windows came to
    wmctrlCalls,  \* how many times it ran wmctrl
    calls,        \* the coroutine each task of the event loop runs
    pc,           \* where each task is
    running       \* the task that occupies the event loop's thread, or 0

vars ==
    <<desktop, wmctrl, op, arg, result, capture, wmctrlCalls,
      calls, pc, running>>

\* the tasks scheduled on the event loop
NumTasks == 2

Tasks == 1..NumTasks

\* no coroutine is scheduled: the handlers are called one at a time
LoopIdle ==
    /\ calls = [t \in Tasks |-> "none"]
    /\ pc = [t \in Tasks |-> "idle"]
    /\ running = 0

NoResult ==
    [raised |-> FALSE, success |-> FALSE, keys |-> {},
     windows |-> <<>>, error |-> <<>>]

Init ==
    /\ \/ /\ desktop \in EnumDesktops \cup TreeDesktops \cup PairDesktops
                          \cup AttrDesktops
          /\ wmctrl = WmctrlOne
       \/ desktop = Desktop(<<>>) /\ wmctrl \in WmctrlChoices
       \/ /\ desktop \in EmptyDesktops
          /\ wmctrl \in {w \in WmctrlChoices : w.status # "ok"}
    /\ op = "none"
    /\ arg = None
    /\ result = NoResult
    /\ capture = "none"
    /\ wmctrlCalls = 0
    /\ LoopIdle

GetWindows ==
    LET run == GetWindowsRun(desktop, wmctrl) IN
    /\ op' = "get_windows"
    /\ arg' = None
    /\ result' = run.result
    /\ capture' = run.capture
    /\ wmctrlCalls' = run.wmctrlCalls
    /\ UNCHANGED <<desktop, wmctrl, calls, pc, running>>

FindWindowByTitle ==
    LET got == GetWindowsRun(desktop, wmctrl) IN
    \E a \in TextArgs :
        LET run == TitleSearch(got, a) IN
        /\ op' = "find_window_by_title"
        /\ arg' = a
        /\ result' = run.result
        /\ capture' = run.capture
        /\ wmctrlCalls' = run.wmctrlCalls
        /\ UNCHANGED <<desktop, wmctrl, calls, pc, running>>

FindWindowByRole ==
    LET got == GetWindowsRun(desktop, wmctrl) IN
    \E a \in RoleArgs :
        LET run == RoleSearch(got, a) IN
        /\ op' = "find_window_by_role"
        /\ arg' = a
        /\ result' = run.result
        /\ capture' = run.capture
        /\ wmctrlCalls' = run.wmctrlCalls
        /\ UNCHANGED <<desktop, wmctrl, calls, pc, running>>

FindWindowByValue ==
    \E a \in TextArgs :
        /\ op' = "find_window_by_value"
        /\ arg' = a
        /\ result' = find_window_by_value(desktop, a)
        /\ capture' = "bypassed"
        /\ wmctrlCalls' = 0
        /\ UNCHANGED <<desktop, wmctrl, calls, pc, running>>

Next ==
    \/ GetWindows
    \/ FindWindowByTitle
    \/ FindWindowByRole
    \/ FindWindowByValue

Spec == Init /\ [][Next]_vars

----------------------------------------------------------------------------
(* The handlers as coroutines of one asyncio event loop.  A coroutine runs *)
(* on the loop's thread until it awaits; get_windows and                   *)
(* find_window_by_value contain no await, click awaits asyncio.to_thread.  *)
(* A call into the backend may return, raise or never return.              *)

LoopOps == {"get_windows", "find_window_by_value", "click"}

CaptureOps == {"get_windows", "find_window_by_value"}

LoopDesktops == {Desktop(<<App(<<Entry(w)>>)>>) : w \in {FrameTt, DialogT}}

LoopArgs == {None, Str(<<"t">>)}

\* str(e) of the exception pyautogui.click raises
ErrClick == <<"click failed">>

\* the return value of click when the click went through
ClickDone ==
    [raised |-> FALSE, success |-> TRUE, keys |-> {"success"},
     windows |-> <<>>, error |-> <<>>]

InitLoop ==
    /\ desktop \in LoopDesktops
    /\ wmctrl = WmctrlOne
    /\ op = "none"
    /\ arg = None
    /\ result = NoResult
    /\ capture = "none"
    /\ wmctrlCalls = 0
    /\ calls \in [Tasks -> LoopOps]
    /\ pc = [t \in Tasks |-> "queued"]
    /\ running = 0

\* the loop picks a queued task and runs its coroutine up to its first
\* await: a capture stays on the loop's thread, click hands pyautogui.click
\* to a worker thread and gives the loop back
LoopStart(t) ==
    /\ running = 0
    /\ pc[t] = "queued"
    /\ IF calls[t] \in CaptureOps
       THEN /\ pc' = [pc EXCEPT ![t] = "capturing"]
            /\ running' = t
       ELSE /\ pc' = [pc EXCEPT ![t] = "in_thread"]
            /\ running' = 0
    /\ UNCHANGED <<desktop, wmctrl, op, arg, result, capture, wmctrlCalls,
                   calls>>

\* the capture of a task comes back and its coroutine returns
CaptureReturn(t) ==
    /\ pc[t] = "capturing"
    /\ running = t
    /\ IF calls[t] = "get_windows"
       THEN LET run == GetWindowsRun(desktop, wmctrl) IN
            /\ op' = "get_windows"
            /\ arg' = None
            /\ result' = run.result
            /\ capture' = run.capture
            /\ wmctrlCalls' = run.wmctrlCalls
       ELSE \E a \in LoopArgs :
            /\ op' = "find_window_by_value"
            /\ arg' = a
            /\ result' = find_window_by_value(desktop, a)
            /\ capture' = "bypassed"
            /\ wmctrlCalls' = 0
    /\ pc' = [pc EXCEPT ![t] = "done"]
    /\ running' = 0
    /\ UNCHANGED <<desktop, wmctrl, calls>>

\* a backend call of the capture never returns
CaptureHang(t) ==
    /\ pc[t] = "capturing"
    /\ running = t
    /\ pc' = [pc EXCEPT ![t] = "hung"]
    /\ UNCHANGED <<desktop, wmctrl, op, arg, result, capture, wmctrlCalls,
                   calls, running>>

\* pyautogui.click returns or raises in its worker thread
ThreadFinish(t) ==
    /\ pc[t] = "in_thread"
    /\ \E outcome \in {"returned", "raised"} :
          pc' = [pc EXCEPT ![t] = outcome]
    /\ UNCHANGED <<desktop, wmctrl, op, arg, result, capture, wmctrlCalls,
                   calls, running>>

\* pyautogui.click never returns
ThreadHang(t) ==
    /\ pc[t] = "in_thread"
    /\ pc' = [pc EXCEPT ![t] = "thread_hung"]
    /\ UNCHANGED <<desktop, wmctrl, op, arg, result, capture, wmctrlCalls,
                   calls, running>>

\* the loop resumes click after its await and click returns
LoopResume(t) ==
    /\ running = 0
    /\ pc[t] \in {"returned", "raised"}
    /\ op' = "click"
    /\ arg' = None
    /\ result' = IF pc[t] = "returned" THEN ClickDone ELSE Failure(ErrClick)
    /\ capture' = "none"
    /\ wmctrlCalls' = 0
    /\ pc' = [pc EXCEPT ![t] = "done"]
    /\ UNCHANGED <<desktop, wmctrl, calls, running>>

NextLoop ==
    \/ \E t \in Tasks : LoopStart(t)
    \/ \E t \in Tasks : CaptureReturn(t)
    \/ \E t \in Tasks : CaptureHang(t)
    \/ \E t \in Tasks : ThreadFinish(t)
    \/ \E t \in Tasks : ThreadHang(t)
    \/ \E t \in Tasks : LoopResume(t)

SpecLoop == InitLoop /\ [][NextLoop]_vars

----------------------------------------------------------------------------
(* What the environment is, said without running the handler               *)

RECURSIVE Flatten(_)
\* the concatenation of a sequence of sequences
Flatten(ss) == IF ss = <<>> THEN <<>> ELSE Head(ss) \o Flatten(Tail(ss))

\* some backend call of the enumeration of the desktop raises
EnumerationFaulty(desk) ==
    \/ desk.root = "raise"
    \/ desk.count = "raise"
    \/ \E i \in 1..Len(desk.apps) :
          \/ desk.apps[i].fetch = "raise"
          \/ desk.apps[i].count = "raise"
          \/ \E j \in 1..Len(desk.apps[i].wins) :
                desk.apps[i].wins[j].fetch = "raise"

\* the children of the applications, in the order the backend reports them
TopEntries(desk) == Flatten([i \in 1..Len(desk.apps) |-> desk.apps[i].wins])

\* the entry passes the role filter
IsWindowLike(entry) ==
    /\ entry.fetch = "ok"
    /\ entry.filterRole.ok
    /\ \E r \in WindowRoles :
          /\ Len(r) = Len(entry.filterRole.v)
          /\ \A i \in 1..Len(r) : LowerChar(entry.filterRole.v[i]) = r[i]

\* the entries that become top-level windows, in backend order
WindowEntries(desk) ==
    SelectSeq(TopEntries(desk),
              LAMBDA en : IsWindowLike(en) /\ ~en.node.broken)

\* the calls that run get_windows
RunsGetWindows ==
    op \in {"get_windows", "find_window_by_title", "find_window_by_role"}

----------------------------------------------------------------------------
(* C1: in every get_windows call wmctrl is run if and only if the AT-SPI   *)
(* capture completed without raising and found no top-level window; it is  *)
(* never run when the capture raises or finds a window, and the call ends   *)
(* in exactly one of: success on the captured windows, success after the    *)
(* fallback, or failure.                                                    *)
C1_FallbackIffEmptyCapture ==
    RunsGetWindows =>
        LET faulty == EnumerationFaulty(desktop)
            found  == WindowEntries(desktop) # <<>>
            got    == get_windows(desktop, wmctrl)
        IN  /\ wmctrlCalls \in {0, 1}
            /\ (wmctrlCalls = 1) <=> (~faulty /\ ~found)
            /\ capture = IF faulty THEN "raised"
                         ELSE IF found THEN "nonempty" ELSE "empty"
            /\ faulty => ~got.success /\ wmctrlCalls = 0
            /\ (~faulty /\ found) =>
                   got.success /\ got.windows # <<>> /\ wmctrlCalls = 0
            /\ (~faulty /\ ~found) => got.success /\ wmctrlCalls = 1

\* a get_windows call whose capture found nothing and which ran wmctrl
C1_Witness ==
    /\ op = "get_windows"
    /\ ~EnumerationFaulty(desktop)
    /\ WindowEntries(desktop) = <<>>
    /\ wmctrlCalls = 1
    /\ result.success
    /\ Len(result.windows) = 1

----------------------------------------------------------------------------
\* a line of the listing has fewer than four whitespace-delimited fields
WordStarts(line) ==
    {i \in 1..Len(line) :
        line[i] \notin Whitespace /\ (i = 1 \/ line[i - 1] \in Whitespace)}

NoUsableLine(wm) ==
    \A k \in 1..Len(SplitLines(wm.output)) :
        Cardinality(WordStarts(SplitLines(wm.output)[k])) < 4

(* C2: whenever the AT-SPI capture finds no top-level window, get_windows  *)
(* returns success:true whatever the fallback does; with wmctrl missing,    *)
(* failing or printing no usable line the windows list is empty.            *)
C2_EmptyCaptureStillSucceeds ==
    (op = "get_windows" /\ ~EnumerationFaulty(desktop)
                        /\ WindowEntries(desktop) = <<>>) =>
        /\ result.success
        /\ ~result.raised
        /\ result.keys = {"success", "windows"}
        /\ (wmctrl.status # "ok" \/ NoUsableLine(wmctrl)) =>
               result.windows = <<>>

\* get_windows on an empty capture with wmctrl not installed
C2_Witness ==
    /\ op = "get_windows"
    /\ ~EnumerationFaulty(desktop)
    /\ WindowEntries(desktop) = <<>>
    /\ wmctrl.status = "missing"
    /\ result.success
    /\ result.windows = <<>>

----------------------------------------------------------------------------
(* C3: get_windows returns success:false only when the desktop root of the *)
(* registry cannot be obtained; a fault after the root was obtained never   *)
(* makes the whole result success:false.                                    *)
C3_FailureOnlyWithoutRoot ==
    (op = "get_windows" /\ ~result.success) => desktop.root = "raise"

----------------------------------------------------------------------------
\* sub occurs in s when letter case is ignored
ContainsIgnoringCase(sub, s) ==
    \E k \in 0..(Len(s) - Len(sub)) :
        \A i \in 1..Len(sub) : LowerChar(s[k + i]) = LowerChar(sub[i])

\* a and b are equal when letter case is ignored
EqualIgnoringCase(a, b) ==
    /\ Len(a) = Len(b)
    /\ \A i \in 1..Len(a) : LowerChar(a[i]) = LowerChar(b[i])

\* the smallest element of a non-empty set of numbers
Least(S) == CHOOSE i \in S : \A j \in S : i <= j

(* C4: for every string s and every successfully captured window set,      *)
(* find_window_by_title(s) returns success:true with the window of lowest   *)
(* capture-order index whose title contains s ignoring case; when no title  *)
(* contains s it returns success:false with an error message containing s.  *)
C4_FirstTitleMatch ==
    (op = "find_window_by_title" /\ ~arg.isNone
        /\ get_windows(desktop, wmctrl).success) =>
        LET ws   == get_windows(desktop, wmctrl).windows
            hits == {i \in 1..Len(ws) : ContainsIgnoringCase(arg.s, ws[i].title)}
        IN  IF hits # {}
            THEN /\ result.success
                 /\ result.keys = {"success", "window"}
                 /\ result.windows = <<ws[Least(hits)]>>
            ELSE /\ ~result.success
                 /\ result.keys = {"success", "error"}
                 /\ Contains(arg.s, result.error)

\* the query "tT" finds the second window, titled "Tt": the first window's
\* title "t" does not contain it
C4_Witness ==
    /\ op = "find_window_by_title"
    /\ arg = Str(<<"t", "T">>)
    /\ Len(get_windows(desktop, wmctrl).windows) = 2
    /\ get_windows(desktop, wmctrl).windows[1].title = <<"t">>
    /\ result.success
    /\ result.windows[1].title = <<"T", "t">>

----------------------------------------------------------------------------
(* C5: for every string r and every successfully captured window set,      *)
(* find_window_by_role(r) returns success:true with exactly the windows     *)
(* whose role equals r ignoring case, in capture order; when there is none  *)
(* it returns success:false with an error message containing r.             *)
C5_AllRoleMatches ==
    (op = "find_window_by_role" /\ ~arg.isNone
        /\ get_windows(desktop, wmctrl).success) =>
        LET ws   == get_windows(desktop, wmctrl).windows
            same == SelectSeq(ws, LAMBDA w : EqualIgnoringCase(w.role, arg.s))
        IN  IF same # <<>>
            THEN /\ result.success
                 /\ result.keys = {"success", "windows"}
                 /\ result.windows = same
            ELSE /\ ~result.success
                 /\ result.keys = {"success", "error"}
                 /\ Contains(arg.s, result.error)

\* the query "frame" selects the window of role "Frame" and leaves out the
\* dialog captured before it
C5_Witness ==
    /\ op = "find_window_by_role"
    /\ arg = Str(rFrame)
    /\ Len(get_windows(desktop, wmctrl).windows) = 2
    /\ get_windows(desktop, wmctrl).windows[1].role = rDialog
    /\ result.success
    /\ Len(result.windows) = 1
    /\ result.windows[1].role = rFrameCap

----------------------------------------------------------------------------
RECURSIVE NodesOf(_)
\* the nodes of a captured tree
NodesOf(e) ==
    {e} \cup UNION {NodesOf(e.children[i]) : i \in 1..Len(e.children)}

\* a node whose value or title matches v: a non-empty value or title that
\* contains v ignoring case
NodeMatches(n, v) ==
    \/ n.value # <<>> /\ ContainsIgnoringCase(v, n.value)
    \/ n.title # <<>> /\ ContainsIgnoringCase(v, n.title)

\* the tree of a top-level entry holds a matching node at some depth
TreeMatches(entry, v) ==
    \E n \in NodesOf(LinuxUIElement(entry.node)) : NodeMatches(n, v)

\* the top-level objects that pass the role filter, constructible or not
FilteredEntries(desk) == SelectSeq(TopEntries(desk), IsWindowLike)

\* the traversal of find_window_by_value meets no fault of the backend
TraversalClean(desk) ==
    /\ ~EnumerationFaulty(desk)
    /\ \A k \in 1..Len(FilteredEntries(desk)) :
          ~FilteredEntries(desk)[k].node.broken

(* C6: find_window_by_value(v) returns the first top-level window in       *)
(* capture order whose tree holds, at any depth, a node whose value or      *)
(* title matches v, and the payload is that window's whole serialized tree, *)
(* never the matching descendant alone; when no node of any window matches  *)
(* it returns success:false.  A success always is the first match; on a     *)
(* traversal that meets no backend fault a match always is a success.       *)
C6_FirstEnclosingWindow ==
    (op = "find_window_by_value" /\ ~arg.isNone) =>
        LET es   == WindowEntries(desktop)
            hits == {k \in 1..Len(es) : TreeMatches(es[k], arg.s)}
        IN  /\ result.success =>
                /\ hits # {}
                /\ result.keys = {"success", "window"}
                /\ result.windows =
                       <<to_dict(LinuxUIElement(es[Least(hits)].node))>>
            /\ hits = {} => ~result.success
            /\ (TraversalClean(desktop) /\ hits # {}) => result.success

\* the query "T" matches only a grandchild of the second window; the
\* payload is that window, root and all
C6_Witness ==
    /\ op = "find_window_by_value"
    /\ arg = Str(<<"T">>)
    /\ Len(WindowEntries(desktop)) = 2
    /\ ~TreeMatches(WindowEntries(desktop)[1], arg.s)
    /\ result.success
    /\ result.windows[1].title = <<>>
    /\ Len(result.windows[1].children) = 1
    /\ result.windows[1].children[1].title = <<>>
    /\ result.windows[1].children[1].children[1].title = <<"T">>

----------------------------------------------------------------------------
\* a window of a window set holds a matching node at some depth
WindowMatches(w, v) == \E n \in NodesOf(w) : NodeMatches(n, v)

(* C7: every search, find_window_by_value included, is evaluated over the  *)
(* window set get_windows returns for the same backend state: whenever      *)
(* get_windows succeeds, find_window_by_value(v) succeeds exactly when a    *)
(* window of that set matches v and then returns the first such window; in  *)
(* particular a fallback stub titled T is found by value T as it is by      *)
(* title T.                                                                 *)
C7_ValueSearchOverWindowSet ==
    (op = "find_window_by_value" /\ ~arg.isNone
        /\ get_windows(desktop, wmctrl).success) =>
        LET ws   == get_windows(desktop, wmctrl).windows
            hits == {i \in 1..Len(ws) : WindowMatches(ws[i], arg.s)}
        IN  IF hits # {}
            THEN result.success /\ result.windows = <<ws[Least(hits)]>>
            ELSE ~result.success

----------------------------------------------------------------------------
\* the index at which the n-th whitespace-delimited field of a line starts
FieldStart(line, n) ==
    CHOOSE i \in WordStarts(line) :
        Cardinality({j \in WordStarts(line) : j < i}) = n - 1

\* the index of the last character of a line that is not whitespace
LastInk(line) ==
    CHOOSE i \in 1..Len(line) :
        /\ line[i] \notin Whitespace
        /\ \A j \in (i + 1)..Len(line) : line[j] \in Whitespace

\* the fourth-and-remaining portion of a line, surrounding whitespace off
TitlePortion(line) == SubSeq(line, FieldStart(line, 4), LastInk(line))

(* C8: when the fallback is used, the window set holds exactly one stub    *)
(* per listing line with at least four whitespace-delimited fields, in line *)
(* order, and shorter lines contribute nothing; each stub has role          *)
(* "window", the fourth-and-remaining portion of its line, stripped, as     *)
(* title, value "", x = y = width = height = 0 and no children.             *)
C8_OneStubPerUsableLine ==
    (op = "get_windows" /\ wmctrlCalls = 1 /\ wmctrl.status = "ok") =>
        LET usable == SelectSeq(SplitLines(wmctrl.output),
                          LAMBDA l : Cardinality(WordStarts(l)) >= 4)
        IN  /\ result.success
            /\ Len(result.windows) = Len(usable)
            /\ \A k \in 1..Len(usable) :
                  result.windows[k] =
                      [role |-> <<"w","i","n","d","o","w">>,
                       title |-> TitlePortion(usable[k]),
                       value |-> <<>>, x |-> 0, y |-> 0,
                       width |-> 0, height |-> 0, children |-> <<>>]

\* a listing of a three-field line and a padded five-field line gives one
\* stub, whose title keeps its inner whitespace and loses the trailing one
C8_Witness ==
    /\ op = "get_windows"
    /\ wmctrlCalls = 1
    /\ wmctrl.status = "ok"
    /\ Len(SplitLines(wmctrl.output)) = 2
    /\ Cardinality(WordStarts(SplitLines(wmctrl.output)[1])) = 3
    /\ wmctrl.output[Len(wmctrl.output) - 1] = " "
    /\ Len(result.windows) = 1
    /\ result.windows[1].title = <<"T", " ", "\t", "t">>

----------------------------------------------------------------------------
\* the number of children the backend object yields before its enumeration
\* fails
Enumerated(acc) ==
    IF acc.enumFailAt \in 1..Len(acc.kids)
    THEN acc.enumFailAt - 1
    ELSE Len(acc.kids)

\* the children that were enumerated and can be constructed, in backend
\* order
KeptKids(acc) ==
    SelectSeq(SubSeq(acc.kids, 1, Enumerated(acc)), LAMBDA k : ~k.broken)

RECURSIVE ChildrenFaithful(_, _)
\* the captured node e of the backend object acc has, as children and in
\* this order, the captures of the kept children of acc, and so on below
ChildrenFaithful(acc, e) ==
    /\ Len(e.children) = Len(KeptKids(acc))
    /\ \A k \in 1..Len(e.children) :
          /\ e.children[k].role = ElemRole(KeptKids(acc)[k])
          /\ e.children[k].title = ElemTitle(KeptKids(acc)[k])
          /\ e.children[k].value = ElemValue(KeptKids(acc)[k])
          /\ ChildrenFaithful(KeptKids(acc)[k], e.children[k])

(* C9: for every captured node, children is, in the backend's enumeration  *)
(* order and without reordering or duplication, exactly the backend         *)
(* children enumerated before any enumeration failure whose construction    *)
(* succeeded: a child that fails to construct is the only one omitted, and  *)
(* a failure of the enumeration keeps the children already built and still  *)
(* returns the node.                                                        *)
C9_ChildrenKeepBackendOrder ==
    (op = "get_windows" /\ result.success /\ wmctrlCalls = 0) =>
        /\ Len(result.windows) = Len(WindowEntries(desktop))
        /\ \A k \in 1..Len(result.windows) :
              ChildrenFaithful(WindowEntries(desktop)[k].node,
                               result.windows[k])

\* a window whose first child fails to construct keeps its second child,
\* and only that one
C9_Witness ==
    /\ op = "get_windows"
    /\ result.success
    /\ Len(WindowEntries(desktop)) = 1
    /\ Len(WindowEntries(desktop)[1].node.kids) = 2
    /\ WindowEntries(desktop)[1].node.kids[1].broken
    /\ ~WindowEntries(desktop)[1].node.kids[2].broken
    /\ Len(result.windows[1].children) = 1
    /\ result.windows[1].children[1].title =
           ElemTitle(WindowEntries(desktop)[1].node.kids[2])

----------------------------------------------------------------------------
(* C10: no query operation raises to its caller: for every backend         *)
(* behaviour and every argument each call returns a dict with a success     *)
(* flag and either a payload (success:true) or an error message             *)
(* (success:false).                                                         *)
C10_AlwaysStructuredResult ==
    op # "none" =>
        /\ ~result.raised
        /\ "success" \in result.keys
        /\ result.success =>
              /\ result.keys \in {{"success", "windows"}, {"success", "window"}}
              /\ "window" \in result.keys => Len(result.windows) = 1
        /\ ~result.success => result.keys = {"success", "error"}

\* find_window_by_title(None) over a captured window: the AttributeError
\* is returned as an error message
C10_Witness ==
    /\ op = "find_window_by_title"
    /\ arg = None
    /\ get_windows(desktop, wmctrl).success
    /\ get_windows(desktop, wmctrl).windows # <<>>
    /\ ~result.raised
    /\ ~result.success
    /\ result.error = ErrNoneLower

----------------------------------------------------------------------------
RECURSIVE PairsOf(_, _)
\* the captured nodes of a tree, each with the backend object it was
\* constructed from
PairsOf(acc, e) ==
    {<<acc, e>>}
    \cup UNION {PairsOf(KeptKids(acc)[k], e.children[k]) :
                   k \in 1..(IF Len(e.children) <= Len(KeptKids(acc))
                             THEN Len(e.children)
                             ELSE Len(KeptKids(acc)))}

\* the nodes of the windows a get_windows call captured from AT-SPI
CapturedPairs ==
    IF /\ op = "get_windows"
       /\ result.success
       /\ wmctrlCalls = 0
       /\ Len(result.windows) = Len(WindowEntries(desktop))
    THEN UNION {PairsOf(WindowEntries(desktop)[k].node, result.windows[k]) :
                   k \in 1..Len(result.windows)}
    ELSE {}

\* a string with no upper-case letter
IsLowerCase(s) == \A i \in 1..Len(s) : s[i] = LowerChar(s[i])

(* C12, as stated: in every node of every captured tree, fallback stubs    *)
(* included, the role field is a lower-case string whatever letter case    *)
(* the backend reports, and the empty string when the role cannot be read. *)
C12_RolesLowerCase ==
    (op = "get_windows" /\ result.success) =>
        \A k \in 1..Len(result.windows) :
            \A n \in NodesOf(result.windows[k]) : IsLowerCase(n.role)

(* C12, amended: in every node of every captured tree the role field is    *)
(* the role name as the backend reports it, letter case unchanged, and the *)
(* empty string when the role cannot be read; fallback stubs have the      *)
(* lower-case role "window".                                               *)
C12_RolesAsReported ==
    /\ \A p \in CapturedPairs :
          p[2].role = IF p[1].role.ok THEN p[1].role.v ELSE <<>>
    /\ (op = "get_windows" /\ wmctrlCalls = 1) =>
          \A k \in 1..Len(result.windows) :
              result.windows[k].role = <<"w","i","n","d","o","w">>

\* get_windows captured a window whose one child reports the role "Label",
\* and the child's node keeps that spelling
C12_Witness ==
    /\ op = "get_windows"
    /\ result.success
    /\ Len(result.windows) = 1
    /\ Len(result.windows[1].children) = 1
    /\ result.windows[1].children[1].role = rLabelCap
    /\ \E p \in CapturedPairs : p[1].role = Ok(rLabelCap)

----------------------------------------------------------------------------
\* the geometry of a backend object cannot be read
GeometryUnreadable(acc) ==
    \/ acc.comp.q # "ok"
    \/ ~acc.comp.pos.ok
    \/ ~acc.comp.size.ok

(* C13: for every captured node the bounding box is all-or-nothing: when   *)
(* the geometry cannot be read (the component interface, the position read *)
(* or the size read fails) x, y, width and height are all 0; a node never  *)
(* carries a backend position with a zero size from a failed size read.    *)
C13_BoxAllOrNothing ==
    \A p \in CapturedPairs :
        GeometryUnreadable(p[1]) =>
            p[2].x = 0 /\ p[2].y = 0 /\ p[2].width = 0 /\ p[2].height = 0

----------------------------------------------------------------------------
\* the text interface yields content
TextYields(acc) ==
    acc.text.q = "ok" /\ acc.text.content.ok /\ acc.text.content.v # <<>>

\* the value interface yields a scalar
ScalarYields(acc) == acc.val.q = "ok" /\ acc.val.cur.ok

(* C14: for every node, value is resolved by strict priority: the text     *)
(* content if the text interface yields content; otherwise the scalar      *)
(* value, as a string, if the value interface yields one; otherwise the    *)
(* title; so it is empty only when none of the three is available.         *)
C14_ValuePriority ==
    \A p \in CapturedPairs :
        p[2].value =
            IF TextYields(p[1]) THEN p[1].text.content.v
            ELSE IF ScalarYields(p[1]) THEN StrFloat(p[1].val.cur.v)
            ELSE p[2].title

----------------------------------------------------------------------------
(* C15: every window of a get_windows result obtained from the AT-SPI      *)
(* capture has, at the top level, a role that is one of frame, window or   *)
(* dialog when lower-cased, also when the role read fails or changes       *)
(* between the filter and the construction; descendants are kept whatever  *)
(* their role.                                                             *)
C15_TopLevelRolesWindowLike ==
    (op = "get_windows" /\ result.success /\ wmctrlCalls = 0) =>
        /\ \A k \in 1..Len(result.windows) :
              \E r \in WindowRoles :
                  EqualIgnoringCase(result.windows[k].role, r)
        /\ \A p \in CapturedPairs : Len(p[2].children) = Len(KeptKids(p[1]))

----------------------------------------------------------------------------
\* the read of the text content raised
TextReadFailed(acc) ==
    acc.text.q = "raise" \/ (acc.text.q = "ok" /\ ~acc.text.content.ok)

(* C16: node construction yields a node for every subset of the four       *)
(* attribute reads (role, title, value, bounding box) that fails: a failed *)
(* read resolves to the default of its attribute (role "", title "", value *)
(* by the priority rule, geometry 0) and an attribute whose read succeeded *)
(* carries the value the backend reports, whatever the other reads did.    *)
C16_AttributeFaultIsolation ==
    \A p \in CapturedPairs :
        LET acc == p[1]
            e   == p[2]
        IN  /\ e.role = IF acc.role.ok THEN acc.role.v ELSE <<>>
            /\ e.title = IF acc.name.ok THEN acc.name.v ELSE <<>>
            /\ (acc.text.q = "ok" /\ acc.text.content.ok) =>
                   e.value = acc.text.content.v
            /\ TextReadFailed(acc) =>
                   e.value = IF ScalarYields(acc)
                             THEN StrFloat(acc.val.cur.v)
                             ELSE e.title
            /\ IF GeometryUnreadable(acc)
               THEN e.x = 0 /\ e.y = 0 /\ e.width = 0 /\ e.height = 0
               ELSE /\ e.x = acc.comp.pos.a
                    /\ e.y = acc.comp.pos.b
                    /\ e.width = acc.comp.size.a
                    /\ e.height = acc.comp.size.b

----------------------------------------------------------------------------
\* task t is in a call into the accessibility backend
InCapture(t) == calls[t] \in CaptureOps /\ pc[t] \in {"capturing", "hung"}

(* C11: the blocking traversal of the accessibility backend runs off the   *)
(* single-threaded dispatch path: while the capture of one query is slow   *)
(* or hung, another query that was issued and waits to run can start.      *)
C11_CaptureOffTheLoop ==
    \A t \in Tasks : \A u \in Tasks \ {t} :
        (InCapture(t) /\ pc[u] = "queued") => ENABLED LoopStart(u)

====
